---------------------------- MODULE Spec2Model ----------------------------
(***************************************************************************)
(* One-step reducer of the s-expression language (lang.js: canStep, step,  *)
(* rewrite, the builtin table) and the loop that drives it.                *)
(*                                                                         *)
(* Data (lang.js `Data`) is modelled as a record [k, v]:                   *)
(*   k = "num"   v = <<n, d>>   a Number (see "Numbers" below)             *)
(*   k = "sym"   v = name       the branded string "sym!" + name           *)
(*   k = "str"   v = text       the branded string "str!" + text           *)
(*   k = "list"  v = sequence   a JavaScript array of Data                 *)
(*   k = "undef"                JavaScript `undefined` (an absent element) *)
(*   k = "null"                 JavaScript `null` (left by a JSON clone)   *)
(* and a thrown exception as [k |-> "err", v |-> kind].  JavaScript array  *)
(* indices are 0-based; Idx(a, i) reads a[i].                              *)
(***************************************************************************)
EXTENDS Integers, Sequences, FiniteSets, TLC

-----------------------------------------------------------------------------
(* Bounds of the model *)

\* Number literals 0..MaxNum occur in the programs handed to the reducer.
MaxNum == 1
\* Most operands written after an operator in the flat programs; a lambda
\* application has one fewer at most.
MaxArgs == 3
\* step calls made on one program.
MaxSteps == 3
\* Iterations of the loop of showStep on an example program.
MaxRunSteps == 100
\* The length of backPatches above which showStep drops the oldest patch
\* (10000 in the page).
MaxPatches == 2
\* Most iterations the loop of showStep(Infinity) makes before it yields.
MaxQuantum == 2
\* Steps the page is taken forward from its initial program.
MaxDriverSteps == 5
\* Most setTimeout callbacks pending when a run to the end is started.
MaxTimers == 2

-----------------------------------------------------------------------------
(* Numbers.  A Number is kept as <<n, d>>: the rational n/d in lowest terms *)
(* with d > 0, and <<0,-1>> = -0, <<1,0>> = Infinity, <<-1,0>> = -Infinity, *)
(* <<0,0>> = NaN.  Arithmetic is exact, which is what binary64 computes for *)
(* every value it represents exactly.                                       *)

NaN == <<0, 0>>
PosInf == <<1, 0>>
NegInf == <<-1, 0>>
PosZero == <<0, 1>>
NegZero == <<0, -1>>

Abs(n) == IF n < 0 THEN -n ELSE n

RECURSIVE Gcd(_, _)
Gcd(a, b) == IF b = 0 THEN a ELSE Gcd(b, a % b)

Rat(n, d) ==
  IF n = 0 THEN PosZero
  ELSE LET g == Gcd(Abs(n), Abs(d))
           s == IF d < 0 THEN -1 ELSE 1
       IN  <<(s * n) \div g, Abs(d) \div g>>

IsNaN(a) == a = NaN
IsFinite(a) == a[2] # 0
IsZero(a) == a[1] = 0 /\ a[2] # 0
Sgn(a) == IF a[1] < 0 \/ a = NegZero THEN -1 ELSE 1
SignedZero(s) == IF s < 0 THEN NegZero ELSE PosZero
SignedInf(s) == IF s < 0 THEN NegInf ELSE PosInf
\* truncation toward zero of a finite number
Trunc(a) == IF a[1] >= 0 THEN a[1] \div Abs(a[2]) ELSE -((-a[1]) \div a[2])

NumNeg(a) ==
  IF IsNaN(a) THEN NaN
  ELSE IF IsZero(a) THEN SignedZero(-Sgn(a))
  ELSE <<-a[1], a[2]>>

NumAdd(a, b) ==
  IF IsNaN(a) \/ IsNaN(b) THEN NaN
  ELSE IF ~IsFinite(a) THEN (IF ~IsFinite(b) /\ a # b THEN NaN ELSE a)
  ELSE IF ~IsFinite(b) THEN b
  ELSE IF IsZero(a) /\ IsZero(b)
       THEN (IF a = NegZero /\ b = NegZero THEN NegZero ELSE PosZero)
  ELSE IF IsZero(a) THEN b
  ELSE IF IsZero(b) THEN a
  ELSE Rat(a[1] * b[2] + b[1] * a[2], a[2] * b[2])

NumSub(a, b) == NumAdd(a, NumNeg(b))

NumMul(a, b) ==
  IF IsNaN(a) \/ IsNaN(b) THEN NaN
  ELSE IF ~IsFinite(a) \/ ~IsFinite(b)
       THEN (IF IsZero(a) \/ IsZero(b) THEN NaN ELSE SignedInf(Sgn(a) * Sgn(b)))
  ELSE IF IsZero(a) \/ IsZero(b) THEN SignedZero(Sgn(a) * Sgn(b))
  ELSE Rat(a[1] * b[1], a[2] * b[2])

NumDiv(a, b) ==
  IF IsNaN(a) \/ IsNaN(b) THEN NaN
  ELSE IF ~IsFinite(a)
       THEN (IF ~IsFinite(b) THEN NaN ELSE SignedInf(Sgn(a) * Sgn(b)))
  ELSE IF ~IsFinite(b) THEN SignedZero(Sgn(a) * Sgn(b))
  ELSE IF IsZero(b)
       THEN (IF IsZero(a) THEN NaN ELSE SignedInf(Sgn(a) * Sgn(b)))
  ELSE IF IsZero(a) THEN SignedZero(Sgn(a) * Sgn(b))
  ELSE Rat(a[1] * b[2], a[2] * b[1])

\* l % r: the remainder has the sign of the dividend
NumRem(a, b) ==
  IF IsNaN(a) \/ IsNaN(b) \/ ~IsFinite(a) \/ IsZero(b) THEN NaN
  ELSE IF ~IsFinite(b) \/ IsZero(a) THEN a
  ELSE LET q == Trunc(NumDiv(a, b))
           r == NumSub(a, NumMul(b, <<q, 1>>))
       IN  IF IsZero(r) THEN SignedZero(Sgn(a)) ELSE r

RECURSIVE IntPow(_, _)
IntPow(a, e) == IF e = 0 THEN <<1, 1>> ELSE NumMul(a, IntPow(a, e - 1))

\* l ** r.  A finite non-integer exponent of a positive base other than 1
\* has no exact value and is outside the model (no CASE arm applies).
NumPow(a, b) ==
  CASE IsZero(b) -> <<1, 1>>
    [] ~IsZero(b) /\ (IsNaN(a) \/ IsNaN(b)) -> NaN
    [] ~IsNaN(a) /\ ~IsFinite(b) /\ ~IsNaN(b) ->
         IF Abs(a[1]) = Abs(a[2]) THEN NaN
         ELSE IF (Abs(a[1]) > Abs(a[2]) \/ ~IsFinite(a)) = (b = PosInf)
              THEN PosInf ELSE PosZero
    [] ~IsNaN(a) /\ IsFinite(b) /\ ~IsZero(b) /\ b[2] = 1 ->
         IF b[1] > 0 THEN IntPow(a, b[1])
         ELSE NumDiv(<<1, 1>>, IntPow(a, -b[1]))
    [] ~IsNaN(a) /\ IsFinite(b) /\ b[2] > 1 /\ IsZero(a) ->
         IF b[1] > 0 THEN PosZero ELSE PosInf
    [] ~IsNaN(a) /\ IsFinite(b) /\ b[2] > 1 /\ ~IsFinite(a) ->
         IF b[1] > 0 THEN PosInf ELSE PosZero
    [] ~IsNaN(a) /\ IsFinite(b) /\ b[2] > 1 /\ IsFinite(a) /\ a[1] < 0 -> NaN
    [] IsFinite(b) /\ b[2] > 1 /\ a = <<1, 1>> -> <<1, 1>>

\* l === r on two Numbers
NumEq(a, b) ==
  /\ ~IsNaN(a)
  /\ ~IsNaN(b)
  /\ \/ a = b
     \/ IsZero(a) /\ IsZero(b)

\* l < r
NumLt(a, b) ==
  IF IsNaN(a) \/ IsNaN(b) THEN FALSE
  ELSE IF ~IsFinite(a) \/ ~IsFinite(b)
       THEN a # b /\ (a = NegInf \/ b = PosInf)
  ELSE a[1] * Abs(b[2]) < b[1] * Abs(a[2])

\* ToInt32.  TLC's integers are 32 bits wide, so a finite value's truncation
\* is already its value modulo 2^32.
ToInt32(a) == IF ~IsFinite(a) THEN 0 ELSE Trunc(a)

BitAnd == [p \in 0..1 |-> [q \in 0..1 |-> p * q]]
BitOr == [p \in 0..1 |-> [q \in 0..1 |-> IF p + q > 0 THEN 1 ELSE 0]]
BitXor == [p \in 0..1 |-> [q \in 0..1 |-> (p + q) % 2]]

\* a two's-complement bitwise operator on two int32 values, n bits below
\* the sign bit
RECURSIVE Bits(_, _, _, _)
Bits(f, x, y, n) ==
  IF n = 0 THEN -f[x % 2][y % 2]
  ELSE 2 * Bits(f, x \div 2, y \div 2, n - 1) + f[x % 2][y % 2]

\* one left shift of an int32, wrapping
Shl1(x) ==
  IF x >= 1073741824 THEN (2 * (x - 1073741824) - 2147483647) - 1
  ELSE IF x < -1073741824 THEN (2 * (x + 1073741824) + 2147483647) + 1
  ELSE 2 * x

RECURSIVE ShlN(_, _)
ShlN(x, c) == IF c = 0 THEN x ELSE ShlN(Shl1(x), c - 1)

RECURSIVE ShrN(_, _)
ShrN(x, c) == IF c = 0 THEN x ELSE ShrN(x \div 2, c - 1)

\* ToUint32(l) >>> c.  A negative l shifted by 0 is 2^32 + l, which exceeds
\* the integers of the model (no CASE arm applies).
ShruN(x, c) ==
  CASE x >= 0 -> ShrN(x, c)
    [] x < 0 /\ c > 0 -> ShrN(((x \div 2) + 1) + 2147483647, c - 1)

-----------------------------------------------------------------------------
(* Data *)

Num(n) == [k |-> "num", v |-> <<n, 1>>]
NumVal(a) == [k |-> "num", v |-> a]
sym(value) == [k |-> "sym", v |-> value]
str(value) == [k |-> "str", v |-> value]
List(elems) == [k |-> "list", v |-> elems]
Undefined == [k |-> "undef", v |-> "undefined"]
Null == [k |-> "null", v |-> "null"]
\* undefined or null: reading an element of it throws, and ?? replaces it
IsNullish(x) == x = Undefined \/ x = Null
\* a thrown exception; every kind below is a JavaScript TypeError instance
Err(kind) == [k |-> "err", v |-> kind]
IsErr(x) == x.k = "err"

isSym(value) == value.k = "sym"
isArray(value) == value.k = "list"
\* the JavaScript typeof operator
TypeOf(value) ==
  CASE value.k = "num" -> "number"
    [] value.k \in {"sym", "str"} -> "string"
    [] value.k = "list" -> "object"
    [] value.k = "undef" -> "undefined"
    [] value.k = "null" -> "object"

Length(a) == Len(a.v)
\* a[i], 0-based; undefined past the end and on a non-array
Idx(a, i) == IF isArray(a) /\ i < Length(a) THEN a.v[i + 1] ELSE Undefined
\* x ?? d
Coalesce(x, d) == IF IsNullish(x) THEN d ELSE x
\* a.slice(from)
Slice(a, from) == IF from >= Len(a) THEN <<>> ELSE SubSeq(a, from + 1, Len(a))
\* [...a.slice(0, i), x, ...a.slice(i + 1)]
Splice(a, i, x) == List([a.v EXCEPT ![i + 1] = x])

SYM_CONS == sym("cons")
SYM_QUOTE == sym("quote")
SYM_LAMBDA == sym("lambda")
SYM_IF == sym("if")
SYM_AND == sym("and")
SYM_OR == sym("or")

nil == List(<<SYM_QUOTE, List(<<>>)>>)
true_ == List(<<SYM_QUOTE, sym("true")>>)

\* the keys of the builtins table
builtinNames ==
  {"add", "sub", "mul", "div", "rem", "pow",
   "band", "bor", "bxor", "bnot", "shl", "shr", "shru",
   "eql", "neq", "gt", "gte", "lt", "lte",
   "not", "cons", "car", "cdr", "typeof"}

Ok == [k |-> "ok", v |-> "ok"]

\* the element of a set of one element; in Only({F(x) : x \in {e}}) the
\* value of e is computed once, however often F uses it
Only(S) == CHOOSE x \in S : TRUE

\* print(undefined), evaluated for the message, throws before the TypeError
\* of assertNumber is constructed
assertNumber(value) ==
  IF value.k = "num" THEN Ok
  ELSE IF IsNullish(value) THEN Err("NativeTypeError")
  ELSE Err("TypeError")

\* assertCons that accepts every List
assertConsAnyList(value) ==
  IF isArray(value) THEN Ok ELSE Err("TypeError")

assertCons(value) ==
  IF isArray(value) /\ Length(value) = 3 /\ Idx(value, 0) = SYM_CONS
  THEN Ok ELSE Err("TypeError")

isNil(input) ==
  /\ isArray(input)
  /\ Idx(input, 0) = SYM_QUOTE
  /\ isArray(Idx(input, 1))
  /\ Length(Idx(input, 1)) = 0

\* r === l.  Two arrays are identical only as the same object; the arrays of
\* a program are taken to be distinct objects.
StrictEq(l, r) ==
  CASE l.k = "num" /\ r.k = "num" -> NumEq(l.v, r.v)
    [] l.k = "list" \/ r.k = "list" -> FALSE
    [] OTHER -> l = r

RECURSIVE equals(_, _)
equals(l, r) ==
  /\ TypeOf(l) = TypeOf(r)
  /\ \/ StrictEq(l, r)
     \/ /\ isArray(r)
        /\ \A i \in 0..(Length(r) - 1) : equals(Idx(r, i), Idx(l, i))

\* a builtin taking two Numbers: assertNumber(l); assertNumber(r); return
\* result (evaluated only once both assertions have passed)
Arith(l, r, result) ==
  IF IsErr(assertNumber(l)) THEN assertNumber(l)
  ELSE IF IsErr(assertNumber(r)) THEN assertNumber(r)
  ELSE NumVal(result)

\* an ordering builtin: both asserted, then test ? true_ : nil
Compare(l, r, test) ==
  IF IsErr(assertNumber(l)) THEN assertNumber(l)
  ELSE IF IsErr(assertNumber(r)) THEN assertNumber(r)
  ELSE IF test THEN true_ ELSE nil

IntOf(n) == <<n, 1>>
OpBand(a, b) == IntOf(Bits(BitAnd, ToInt32(a), ToInt32(b), 31))
OpBor(a, b) == IntOf(Bits(BitOr, ToInt32(a), ToInt32(b), 31))
OpBxor(a, b) == IntOf(Bits(BitXor, ToInt32(a), ToInt32(b), 31))
OpShl(a, b) == IntOf(ShlN(ToInt32(a), ToInt32(b) % 32))
OpShr(a, b) == IntOf(ShrN(ToInt32(a), ToInt32(b) % 32))
OpShru(a, b) == IntOf(ShruN(ToInt32(a), ToInt32(b) % 32))
OpGt(a, b) == NumLt(b, a)
OpGte(a, b) == NumLt(b, a) \/ NumEq(a, b)
OpLte(a, b) == NumLt(a, b) \/ NumEq(a, b)

builtinTypeof(v) ==
  IF isNil(v) THEN List(<<SYM_QUOTE, sym("nil")>>)
  ELSE IF TypeOf(v) = "object"
       THEN List(<<SYM_QUOTE,
                   IF Idx(v, 0) = SYM_QUOTE /\ isSym(Idx(v, 1))
                   THEN sym("symbol") ELSE sym("list")>>)
  ELSE List(<<SYM_QUOTE, sym(TypeOf(v))>>)

\* builtins[fn](...args): l and r are the first two arguments, undefined
\* when absent; further arguments are ignored
execute(fn, args) ==
  LET l == Idx(List(args), 0)
      r == Idx(List(args), 1)
  IN CASE fn = "add" -> Arith(l, r, NumAdd(l.v, r.v))
       [] fn = "sub" -> Arith(l, r, NumSub(l.v, r.v))
       [] fn = "mul" -> Arith(l, r, NumMul(l.v, r.v))
       [] fn = "div" -> Arith(l, r, NumDiv(l.v, r.v))
       [] fn = "rem" -> Arith(l, r, NumRem(l.v, r.v))
       [] fn = "pow" -> Arith(l, r, NumPow(l.v, r.v))
       [] fn = "band" -> Arith(l, r, OpBand(l.v, r.v))
       [] fn = "bor" -> Arith(l, r, OpBor(l.v, r.v))
       [] fn = "bxor" -> Arith(l, r, OpBxor(l.v, r.v))
       [] fn = "bnot" ->
            IF IsErr(assertNumber(l)) THEN assertNumber(l)
            ELSE Num(-ToInt32(l.v) - 1)
       [] fn = "shl" -> Arith(l, r, OpShl(l.v, r.v))
       [] fn = "shr" -> Arith(l, r, OpShr(l.v, r.v))
       [] fn = "shru" -> Arith(l, r, OpShru(l.v, r.v))
       [] fn = "eql" -> IF equals(l, r) THEN true_ ELSE nil
       [] fn = "neq" -> IF ~equals(l, r) THEN true_ ELSE nil
       [] fn = "gt" -> Compare(l, r, OpGt(l.v, r.v))
       [] fn = "gte" -> Compare(l, r, OpGte(l.v, r.v))
       [] fn = "lt" -> Compare(l, r, NumLt(l.v, r.v))
       [] fn = "lte" -> Compare(l, r, OpLte(l.v, r.v))
       [] fn = "not" -> IF isNil(l) THEN true_ ELSE nil
       [] fn = "cons" -> List(<<SYM_CONS, Coalesce(l, nil), Coalesce(r, nil)>>)
       [] fn = "car" -> IF IsErr(assertCons(l)) THEN assertCons(l) ELSE Idx(l, 1)
       [] fn = "cdr" -> IF IsErr(assertCons(l)) THEN assertCons(l) ELSE Idx(l, 2)
       [] fn = "typeof" -> builtinTypeof(l)

-----------------------------------------------------------------------------
(* canStep, rewrite, step *)

\* canStep on a value other than undefined and null, on which it throws (it
\* reads input[0])
RECURSIVE canStep(_)
canStep(input) ==
  IF TypeOf(input) = "number" THEN FALSE
  ELSE IF TypeOf(input) = "string"
       THEN (IF isSym(input) THEN input.v \notin builtinNames ELSE FALSE)
  ELSE IF Idx(input, 0) = SYM_CONS
       THEN \/ canStep(Coalesce(Idx(input, 1), nil))
            \/ canStep(Coalesce(Idx(input, 2), nil))
  ELSE IF isNil(input) THEN FALSE
  ELSE IF Idx(input, 0) = SYM_QUOTE /\ isSym(Idx(input, 1)) THEN FALSE
  ELSE IF Idx(input, 0) = SYM_LAMBDA THEN FALSE
  ELSE TRUE

\* A Map<Sym, Data> is a function from Symbol names to Data.
MapSet(mapping, key, value) ==
  [x \in DOMAIN mapping \cup {key} |-> IF x = key THEN value ELSE mapping[x]]
\* MapDelete that deletes nothing
MapDeleteNone(mapping, keys) == mapping

MapDelete(mapping, keys) ==
  [x \in DOMAIN mapping \ keys |-> mapping[x]]

\* the first exception among the results of a left-to-right map, if any
FirstErr(results) ==
  LET bad == {i \in DOMAIN results : IsErr(results[i])}
  IN  IF bad = {} THEN Ok
      ELSE results[CHOOSE i \in bad : \A j \in bad : i <= j]

\* rewrite that substitutes nothing
rewriteNothing(data, mapping) == data

\* the Symbols among the parameters of a lambda List, which rewrite removes
\* from the mapping (mapping.delete(param) does nothing for another value)
paramSymbols(data) ==
  IF isArray(Idx(data, 1))
  THEN {Idx(data, 1).v[i].v : i \in
          {j \in 1..Length(Idx(data, 1)) : isSym(Idx(data, 1).v[j])}}
  ELSE {}

\* rewrite throws: its descent reaches an undefined or null value, whose [0]
\* it reads.  The descent enters every element of a List that is neither
\* quote- nor lambda-headed, and element 2 (the body) of a lambda-headed List.
RECURSIVE rewriteThrows(_)
rewriteThrows(data) ==
  CASE ~isArray(data) -> IsNullish(data)
    [] isArray(data) /\ Idx(data, 0) = SYM_QUOTE -> FALSE
    [] isArray(data) /\ Idx(data, 0) = SYM_LAMBDA ->
         \E inner \in {Idx(data, 2)} : rewriteThrows(inner)
    [] OTHER -> \E i \in 1..Length(data) : rewriteThrows(data.v[i])

\* the value rewrite returns when it does not throw (a lambda-headed List
\* then has its element 2)
RECURSIVE rewriteReturns(_, _)
rewriteReturns(data, mapping) ==
  CASE ~isArray(data) ->
         (IF isSym(data) /\ data.v \in DOMAIN mapping THEN mapping[data.v] ELSE data)
    [] isArray(data) /\ Idx(data, 0) = SYM_QUOTE -> data
    [] isArray(data) /\ Idx(data, 0) = SYM_LAMBDA ->
         [k |-> "list",
          v |-> <<SYM_LAMBDA, Coalesce(Idx(data, 1), nil),
                  rewriteReturns(data.v[3], MapDelete(mapping, paramSymbols(data)))>>]
    [] OTHER ->
         [k |-> "list",
          v |-> [i \in 1..Length(data) |-> rewriteReturns(data.v[i], mapping)]]

rewrite(data, mapping) ==
  IF rewriteThrows(data) THEN Err("NativeTypeError") ELSE rewriteReturns(data, mapping)

\* bindParams reading input[i] where it should read input[i + 1]
RECURSIVE bindParamsShifted(_, _, _, _)
bindParamsShifted(paramNames, input, i, mapping) ==
  IF i >= Length(paramNames) THEN mapping
  ELSE bindParamsShifted(paramNames, input, i + 1,
                         MapSet(mapping, Idx(paramNames, i).v, Coalesce(Idx(input, i), nil)))

\* for (i = 0; i < paramNames.length; i++) mapping.set(paramNames[i], input[i + 1] ?? nil)
RECURSIVE bindParams(_, _, _, _)
bindParams(paramNames, input, i, mapping) ==
  IF i >= Length(paramNames) THEN mapping
  ELSE bindParams(paramNames, input, i + 1,
                  MapSet(mapping, Idx(paramNames, i).v, Coalesce(Idx(input, i + 1), nil)))

\* the lowest index whose element makes the scan of step stop: an element
\* that can step, or an undefined or null one (on which canStep throws); -1
\* if none
firstReducible(input) ==
  LET hits == {i \in 0..(Length(input) - 1) :
                 IsNullish(Idx(input, i)) \/ canStep(Idx(input, i))}
  IN  IF hits = {} THEN -1 ELSE CHOOSE i \in hits : \A j \in hits : i <= j

\* the input of step is past its three early exits: it is neither undefined
\* nor null, it can step, and it is not a Symbol
isApplication(input) == ~IsNullish(input) /\ canStep(input) /\ ~isSym(input)

RECURSIVE step(_)
\* [input[0], step(input[1]), ...input.slice(2)] after canStep(input[1])
stepFirstOperand(input) ==
  CHOOSE out \in { IF IsErr(r) THEN r ELSE Splice(input, 1, r) :
                   r \in {step(arg) : arg \in {Idx(input, 1)}} } : TRUE

\* stepIf taking the then-branch on nil and the else-branch otherwise
stepIfInverted(input) ==
  IF IsNullish(Idx(input, 1)) THEN Err("NativeTypeError")
  ELSE IF canStep(Idx(input, 1)) THEN stepFirstOperand(input)
  ELSE IF isNil(Idx(input, 1)) THEN Idx(input, 2)
  ELSE Coalesce(Idx(input, 3), nil)

stepIf(input) ==
  IF IsNullish(Idx(input, 1)) THEN Err("NativeTypeError")
  ELSE IF canStep(Idx(input, 1)) THEN stepFirstOperand(input)
  ELSE IF ~isNil(Idx(input, 1)) THEN Idx(input, 2)
  ELSE Coalesce(Idx(input, 3), nil)

\* stepOr returning the whole form where it should return its left operand
stepOrKeepsForm(input) ==
  IF IsNullish(Idx(input, 1)) THEN Err("NativeTypeError")
  ELSE IF canStep(Idx(input, 1)) THEN stepFirstOperand(input)
  ELSE IF isNil(Idx(input, 1)) THEN Idx(input, 2)
  ELSE input

stepOr(input) ==
  IF IsNullish(Idx(input, 1)) THEN Err("NativeTypeError")
  ELSE IF canStep(Idx(input, 1)) THEN stepFirstOperand(input)
  ELSE IF isNil(Idx(input, 1)) THEN Idx(input, 2)
  ELSE Idx(input, 1)

\* stepAnd returning its left operand where it should return nil
stepAndKeepsLeft(input) ==
  IF IsNullish(Idx(input, 1)) THEN Err("NativeTypeError")
  ELSE IF canStep(Idx(input, 1)) THEN stepFirstOperand(input)
  ELSE IF isNil(Idx(input, 1)) THEN Idx(input, 1)
  ELSE Idx(input, 2)

stepAnd(input) ==
  IF IsNullish(Idx(input, 1)) THEN Err("NativeTypeError")
  ELSE IF canStep(Idx(input, 1)) THEN stepFirstOperand(input)
  ELSE IF isNil(Idx(input, 1)) THEN nil
  ELSE Idx(input, 2)

\* [...input.slice(0, i), step(arg), ...input.slice(i + 1)]; canStep(arg)
\* throws on an absent arg
stepElement(input, i) ==
  CHOOSE out \in { IF IsErr(r) THEN r ELSE Splice(input, i, r) :
                   r \in {step(arg) : arg \in {Idx(input, i)}} } : TRUE

\* applyLambda that does not look at the length of the lambda List
applyLambdaAnyLength(fn, input) ==
  LET paramNames == Coalesce(Idx(fn, 1), nil)
  IN  IF ~(/\ isArray(paramNames)
           /\ \A i \in 1..Length(paramNames) : isSym(paramNames.v[i]))
      THEN Err("InvalidLambdaShape")
      ELSE Only({ rewrite(body, mapping) :
                  body \in {Idx(fn, 2)},
                  mapping \in {bindParams(paramNames, input, 0, <<>>)} })

\* the operator is a lambda List: validate its shape, bind, substitute
applyLambda(fn, input) ==
  CASE ~(/\ Length(fn) = 3
         /\ isArray(Coalesce(Idx(fn, 1), nil))
         /\ \A i \in 1..Length(Idx(fn, 1)) : isSym(Idx(fn, 1).v[i])) ->
         Err("InvalidLambdaShape")
    [] OTHER ->
         CHOOSE out \in { rewrite(body, mapping) :
                          body \in {Idx(fn, 2)},
                          mapping \in {bindParams(Idx(fn, 1), input, 0, <<>>)} } : TRUE

\* the operator is a Symbol: look it up in the builtins table and call it
applyBuiltin(fn, input) ==
  IF fn.v \in builtinNames
  THEN execute(fn.v, Slice(input.v, 1))
  ELSE Err("UndefinedSymbol")

\* step with the canStep guard applied to Symbols only
stepUnguarded(input) ==
  IF IsNullish(input) THEN Err("NativeTypeError")
  ELSE IF ~isArray(input)
       THEN (IF canStep(input) THEN Err("UndefinedSymbol") ELSE input)
  ELSE
    LET fn == Coalesce(Idx(input, 0), nil)
    IN  IF fn = SYM_IF THEN stepIf(input)
        ELSE IF fn = SYM_OR THEN stepOr(input)
        ELSE IF fn = SYM_AND THEN stepAnd(input)
        ELSE IF firstReducible(input) >= 0
             THEN Only({stepElement(input, i) : i \in {firstReducible(input)}})
        ELSE IF isArray(fn) /\ Idx(fn, 0) = SYM_LAMBDA THEN applyLambda(fn, input)
        ELSE IF isSym(fn) THEN applyBuiltin(fn, input)
        ELSE Err("InvalidOperator")

\* step returning the application whose operator is neither a lambda List
\* nor a Symbol
stepKeepsBadOperator(input) ==
  IF IsNullish(input) THEN Err("NativeTypeError")
  ELSE IF ~canStep(input) THEN input
  ELSE IF isSym(input) THEN Err("UndefinedSymbol")
  ELSE
    LET fn == Coalesce(Idx(input, 0), nil)
    IN  IF fn = SYM_IF THEN stepIf(input)
        ELSE IF fn = SYM_OR THEN stepOr(input)
        ELSE IF fn = SYM_AND THEN stepAnd(input)
        ELSE IF firstReducible(input) >= 0
             THEN Only({stepElement(input, i) : i \in {firstReducible(input)}})
        ELSE IF isArray(fn) /\ Idx(fn, 0) = SYM_LAMBDA THEN applyLambda(fn, input)
        ELSE IF isSym(fn) THEN applyBuiltin(fn, input)
        ELSE input

step(input) ==
  CASE IsNullish(input) -> Err("NativeTypeError")
    [] ~IsNullish(input) /\ ~canStep(input) -> input
    [] ~IsNullish(input) /\ canStep(input) /\ isSym(input) -> Err("UndefinedSymbol")
    [] isApplication(input) /\ Idx(input, 0) = SYM_IF -> stepIf(input)
    [] isApplication(input) /\ Idx(input, 0) = SYM_OR -> stepOr(input)
    [] isApplication(input) /\ Idx(input, 0) = SYM_AND -> stepAnd(input)
    [] isApplication(input) /\ Idx(input, 0) \notin {SYM_IF, SYM_OR, SYM_AND}
         /\ firstReducible(input) >= 0 ->
         stepElement(input, firstReducible(input))
    [] OTHER ->
         IF isArray(Coalesce(Idx(input, 0), nil)) /\ Idx(Idx(input, 0), 0) = SYM_LAMBDA
         THEN applyLambda(Idx(input, 0), input)
         ELSE IF isSym(Coalesce(Idx(input, 0), nil))
              THEN applyBuiltin(Idx(input, 0), input)
         ELSE Err("InvalidOperator")

\* Data: a Number, a branded string, or an array of Data (no absent element)
RECURSIVE IsData(_)
IsData(t) ==
  \/ t.k \in {"num", "sym", "str"}
  \/ /\ isArray(t)
     /\ \A i \in 1..Length(t) : IsData(t.v[i])

\* The position (0-based indices from the root) of the sub-term on which a
\* step call acts itself instead of descending further: the condition of
\* if/or/and while it can step, else the first element that can step.
RECURSIVE redexPath(_)
redexPath(input) ==
  IF ~isArray(input) \/ ~canStep(input) THEN <<>>
  ELSE IF Idx(input, 0) \in {SYM_IF, SYM_OR, SYM_AND}
       THEN (IF ~IsNullish(Idx(input, 1)) /\ canStep(Idx(input, 1))
             THEN <<1>> \o redexPath(Idx(input, 1)) ELSE <<>>)
  ELSE IF firstReducible(input) >= 0 /\ ~IsNullish(Idx(input, firstReducible(input)))
       THEN <<firstReducible(input)>> \o redexPath(Idx(input, firstReducible(input)))
  ELSE <<>>

-----------------------------------------------------------------------------
(* Programs: the Data the parser can hand to the reducer, within the bounds *)

\* all sequences over S of length 0..n
RECURSIVE SeqsUpTo(_, _)
SeqsUpTo(S, n) ==
  IF n = 0 THEN {<<>>}
  ELSE LET shorter == SeqsUpTo(S, n - 1)
       IN  shorter \cup {Append(q, e) : q \in {t \in shorter : Len(t) = n - 1}, e \in S}

Nums == {Num(n) : n \in 0..MaxNum}
Quoted(x) == List(<<SYM_QUOTE, x>>)
Lambda(params, body) == List(<<SYM_LAMBDA, List(params), body>>)
App2(f, a) == List(<<f, a>>)
App3(f, a, b) == List(<<f, a, b>>)

\* (lambda (x) (x x)); applied to itself it is the self-application term
selfApply == Lambda(<<sym("x")>>, App2(sym("x"), sym("x")))

headSymbols ==
  {sym(h) : h \in {"if", "or", "and", "quote", "lambda", "cons", "car", "cdr",
                   "add", "div", "eql", "not", "typeof", "x"}}

\* operators and operands of the flat programs (h a1 .. an)
flatHeads == headSymbols \cup {Num(0), str("s"), List(<<>>)}
flatArgs == {Num(0), Num(MaxNum), str("s"), sym("x"), nil, true_}
flatPrograms ==
  {List(<<h>> \o args) : h \in flatHeads, args \in SeqsUpTo(flatArgs, MaxArgs)}
    \cup {List(<<>>)}

\* sub-terms of the nested programs: values, redexes, and Lists that the
\* predicates treat specially
nestedArgs ==
  Nums \cup
  { sym("x"), sym("add"), nil, true_, Quoted(sym("x")),
    List(<<SYM_QUOTE, List(<<>>), Num(0)>>),
    Quoted(Num(0)),
    List(<<sym("add"), Num(0), Num(1)>>),
    List(<<sym("car"), Num(0)>>),
    List(<<sym("not"), nil>>),
    List(<<SYM_CONS, Num(0), Num(1)>>),
    List(<<SYM_CONS, Num(0), List(<<sym("add"), Num(0), Num(1)>>)>>),
    List(<<SYM_CONS, Num(0), Num(1), List(<<sym("add"), Num(0), Num(1)>>)>>),
    List(<<SYM_CONS>>),
    Lambda(<<sym("x")>>, sym("x")),
    Lambda(<<sym("x")>>, List(<<sym("add"), Num(0), Num(1)>>)),
    List(<<SYM_IF, true_, sym("add"), sym("car")>>),
    List(<<SYM_IF, Num(1)>>) }

nestedPrograms ==
  {List(<<h>> \o args) : h \in headSymbols \cup nestedArgs,
                         args \in SeqsUpTo(nestedArgs, 2)}
    \cup nestedArgs
    \cup {List(<<h, c, a, b>>) : h \in {SYM_IF, SYM_OR, SYM_AND},
                                 c \in nestedArgs,
                                 a \in {Num(1), List(<<sym("car"), Num(0)>>), sym("x")},
                                 b \in {Num(0), List(<<sym("div"), Num(1), Num(0)>>),
                                        List(<<sym("car"), Num(0)>>)}}

\* lambda Lists: every parameter List below with every body below, and the
\* shapes step rejects
paramLists ==
  {<<>>, <<sym("x")>>, <<sym("y")>>, <<sym("x"), sym("y")>>, <<sym("x"), sym("x")>>}
innerLambdas ==
  { Lambda(<<sym("x")>>, sym("x")),
    Lambda(<<sym("y")>>, sym("x")),
    Lambda(<<sym("x")>>, App2(sym("x"), sym("y"))),
    Lambda(<<sym("y"), sym("x")>>, App2(sym("x"), sym("y"))),
    List(<<SYM_LAMBDA, sym("x"), sym("x")>>),
    List(<<SYM_LAMBDA, List(<<sym("y")>>), sym("x"), sym("x")>>),
    List(<<SYM_LAMBDA, List(<<sym("x")>>)>>),
    List(<<SYM_LAMBDA>>) }
bodies ==
  { sym("x"), sym("y"), sym("add"), Num(0), str("s"),
    App2(sym("x"), sym("x")),
    App2(sym("x"), sym("y")),
    App3(sym("add"), sym("x"), sym("y")),
    Quoted(sym("x")),
    List(<<SYM_QUOTE, sym("x"), sym("y")>>),
    List(<<SYM_IF, sym("x"), sym("y"), Num(0)>>),
    List(<<>>) }
    \cup innerLambdas
    \cup {App3(SYM_CONS, sym("x"), l) : l \in innerLambdas}
    \cup {App3(SYM_CONS, l, sym("x")) : l \in innerLambdas}
lambdas ==
  {Lambda(ps, b) : ps \in paramLists, b \in bodies}
    \cup { List(<<SYM_LAMBDA>>),
           List(<<SYM_LAMBDA, List(<<sym("x")>>)>>),
           List(<<SYM_LAMBDA, sym("x"), sym("x")>>),
           List(<<SYM_LAMBDA, List(<<Num(0)>>), sym("x")>>),
           List(<<SYM_LAMBDA, List(<<sym("x")>>), sym("x"), sym("x")>>) }
operands == Nums \cup {selfApply, Quoted(sym("y"))}
lambdaPrograms ==
  {List(<<f>> \o args) : f \in lambdas, args \in SeqsUpTo(operands, MaxArgs - 1)}

\* every builtin applied to at most two values
builtinOperands ==
  {Num(0), Num(MaxNum), str("s"), nil, List(<<SYM_CONS, Num(0), Num(1)>>)}
builtinPrograms ==
  {List(<<sym(h)>> \o args) : h \in builtinNames, args \in SeqsUpTo(builtinOperands, 2)}

\* eql and neq applied to two terms: values of every kind, Lists that
\* differ in length only, and quotients that step to NaN and to Infinity
eqlOperands ==
  { Num(0), Num(MaxNum), str("s"), str("add"), sym("add"), nil, true_,
    Quoted(sym("x")),
    Lambda(<<sym("x")>>, sym("x")),
    Lambda(<<sym("x"), sym("y")>>, sym("x")),
    List(<<SYM_CONS, Num(0), Num(1)>>),
    List(<<SYM_CONS, Num(0), List(<<SYM_CONS, Num(0), Num(1)>>)>>),
    List(<<sym("div"), Num(0), Num(0)>>),
    List(<<sym("div"), Num(1), Num(0)>>) }
eqlPrograms ==
  {List(<<sym(h), l, r>>) : h \in {"eql", "neq"}, l \in eqlOperands, r \in eqlOperands}

atomPrograms ==
  Nums \cup {str("s")} \cup {sym(n) : n \in builtinNames}
       \cup {sym(n) : n \in {"x", "undefined-name", "if", "and", "or", "quote", "lambda", "true"}}

Programs ==
  atomPrograms \cup flatPrograms \cup nestedPrograms \cup lambdaPrograms
    \cup builtinPrograms \cup eqlPrograms

-----------------------------------------------------------------------------
(* The example programs of the page (examples) *)

\* (lambda (z) (lambda (f) (f (lambda (x) (((z z) f) x)))))
fixStep ==
  Lambda(<<sym("z")>>,
    Lambda(<<sym("f")>>,
      App2(sym("f"),
           Lambda(<<sym("x")>>,
                  App2(App2(App2(sym("z"), sym("z")), sym("f")), sym("x"))))))

factorial ==
  App2(
    Lambda(<<sym("Y")>>,
      App2(Lambda(<<sym("factorial")>>, App2(sym("factorial"), Num(5))),
           App2(sym("Y"),
                Lambda(<<sym("recursive-factorial")>>,
                  Lambda(<<sym("x")>>,
                    List(<<SYM_IF,
                           App3(sym("lte"), sym("x"), Num(0)),
                           Num(1),
                           App3(sym("mul"), sym("x"),
                                App2(sym("recursive-factorial"),
                                     App3(sym("sub"), sym("x"), Num(1))))>>)))))),
    App2(Lambda(<<sym("f")>>, App2(sym("f"), sym("f"))), fixStep))

infiniteRecursion ==
  App2(
    Lambda(<<sym("Y")>>,
      App2(App2(sym("Y"),
                Lambda(<<sym("self")>>,
                  Lambda(<<sym("i")>>,
                    App2(sym("self"), App3(sym("add"), sym("i"), Num(1)))))),
           Num(0))),
    Lambda(<<sym("f")>>,
      App2(sym("f"),
           Lambda(<<sym("x")>>,
                  App2(App2(App2(fixStep, fixStep), sym("f")), sym("x"))))))

examples == {factorial, infiniteRecursion}

-----------------------------------------------------------------------------
(* The state of the page that drives the reducer, and the harness that     *)
(* calls step on one program again and again.                              *)

VARIABLES
  initialState,  \* the parsed program
  state,         \* the current program
  prevState,     \* the argument of the latest step call
  outcome,       \* "none", "returned", or the kind of the exception thrown
  currentStep,   \* step calls that have returned
  backPatches,   \* the patches that lead back from state, oldest first
  steppingToEnd, \* a run to the end is under way
  timers,        \* setTimeout callbacks not yet run
  buttons,       \* the disabled flags of the four buttons
  display        \* the output text and the value of the step field

driverVars == <<backPatches, steppingToEnd, timers, buttons, display>>
vars ==
  <<initialState, state, prevState, outcome, currentStep,
    backPatches, steppingToEnd, timers, buttons, display>>

\* the placeholder text of the output, and an empty step field
Placeholder == [k |-> "placeholder", v |-> "Step forwards to start"]
allDisabled == [first |-> TRUE, prev |-> TRUE, next |-> TRUE, last |-> TRUE]

\* the page before any button is used
driverIdle ==
  /\ backPatches = <<>>
  /\ steppingToEnd = FALSE
  /\ timers = 0
  /\ buttons = allDisabled
  /\ display = [output |-> Placeholder, stepInput |-> <<>>]

Init ==
  /\ initialState \in Programs
  /\ state = initialState
  /\ prevState = initialState
  /\ outcome = "none"
  /\ currentStep = 0
  /\ driverIdle

\* state = step(state), the call returns
StepReturns ==
  /\ outcome \in {"none", "returned"}
  /\ currentStep < MaxSteps
  /\ ~IsErr(step(state))
  /\ prevState' = state
  /\ state' = step(state)
  /\ outcome' = "returned"
  /\ currentStep' = currentStep + 1
  /\ UNCHANGED <<initialState, driverVars>>

\* step(state) throws: the evaluation is over, state keeps its value
StepThrows ==
  /\ outcome \in {"none", "returned"}
  /\ currentStep < MaxSteps
  /\ IsErr(step(state))
  /\ prevState' = state
  /\ outcome' = step(state).v
  /\ UNCHANGED <<initialState, state, currentStep, driverVars>>

Next == StepReturns \/ StepThrows

Spec == Init /\ [][Next]_vars

-----------------------------------------------------------------------------
(* The loop of showStep on an example program, one iteration at a time *)

\* a value the loop condition `state && ...` lets through
truthy(value) ==
  /\ ~IsNullish(value)
  /\ value.k = "num" => ~(IsZero(value.v) \/ IsNaN(value.v))

LoopInit ==
  /\ initialState \in examples
  /\ state = initialState
  /\ prevState = initialState
  /\ outcome = "none"
  /\ currentStep = 0
  /\ driverIdle

\* while (... state && canStep(state)) { state = step(state); ... i++ }
LoopStep ==
  /\ outcome \in {"none", "returned"}
  /\ currentStep < MaxRunSteps
  /\ truthy(state)
  /\ canStep(state)
  /\ prevState' = state
  /\ \E next \in {step(state)} :
       /\ state' = IF IsErr(next) THEN state ELSE next
       /\ outcome' = IF IsErr(next) THEN next.v ELSE "returned"
       /\ currentStep' = IF IsErr(next) THEN currentStep ELSE currentStep + 1
  /\ UNCHANGED <<initialState, driverVars>>

LoopNext == LoopStep

LoopSpec == LoopInit /\ [][LoopNext]_vars

-----------------------------------------------------------------------------
(* fast-json-patch, as showStep uses it: compare({_: state}, {_: prevState}) *)
(* and applyPatch({_: state}, patch, true, false).  A document {_: x} is     *)
(* kept as x, undefined when the member is absent.  A path "/_/1/0" is kept  *)
(* as the indices <<1, 0>> below the member _.                               *)

\* JSON.parse(JSON.stringify(value)) of an array or of one of its elements:
\* NaN and the infinities become null, -0 becomes 0, undefined becomes null
RECURSIVE jsonClone(_)
jsonClone(value) ==
  CASE value.k = "num" ->
         IF ~IsFinite(value.v) THEN Null
         ELSE IF value.v = NegZero THEN NumVal(PosZero)
         ELSE value
    [] value.k \in {"sym", "str"} -> value
    [] value.k \in {"undef", "null"} -> Null
    [] value.k = "list" ->
         List([i \in 1..Length(value) |-> jsonClone(value.v[i])])

\* _deepClone: a JSON round trip for objects, null for undefined, and the
\* value itself for the other primitives
deepClone(obj) ==
  IF TypeOf(obj) = "object" THEN jsonClone(obj)
  ELSE IF obj = Undefined THEN Null
  ELSE obj

Operation(op, path, value) == [op |-> op, path |-> path, value |-> value]

RECURSIVE generate(_, _, _)
\* the first loop of _generate, over the keys t, t - 1, .., 0 of mirror
RECURSIVE changedKeys(_, _, _, _)
changedKeys(mirror, obj, path, t) ==
  IF t < 0 THEN <<>>
  ELSE LET oldVal == Idx(mirror, t)
           newVal == Idx(obj, t)
           here == Append(path, t)
           ops == IF t >= Length(obj)
                  THEN <<Operation("remove", here, Undefined)>>
                  ELSE IF isArray(oldVal) /\ isArray(newVal)
                       THEN generate(oldVal, newVal, here)
                  ELSE IF ~StrictEq(oldVal, newVal)
                       THEN <<Operation("replace", here, deepClone(newVal))>>
                  ELSE <<>>
       IN  ops \o changedKeys(mirror, obj, path, t - 1)

\* the second loop of _generate, over the keys t, t + 1, .. of obj
RECURSIVE addedKeys(_, _, _, _)
addedKeys(mirror, obj, path, t) ==
  IF t >= Length(obj) THEN <<>>
  ELSE (IF t >= Length(mirror) /\ Idx(obj, t) # Undefined
        THEN <<Operation("add", Append(path, t), deepClone(Idx(obj, t)))>>
        ELSE <<>>)
         \o addedKeys(mirror, obj, path, t + 1)

\* _generate on two arrays: the operations that turn mirror into obj
generate(mirror, obj, path) ==
  IF Length(obj) = Length(mirror)
  THEN changedKeys(mirror, obj, path, Length(mirror) - 1)
  ELSE changedKeys(mirror, obj, path, Length(mirror) - 1)
         \o addedKeys(mirror, obj, path, 0)

\* compare({_: mirror}, {_: obj}): _generate on the two documents, whose
\* only key is _
compare(mirror, obj) ==
  IF obj = Undefined /\ mirror # Undefined
  THEN <<Operation("remove", <<>>, Undefined)>>
  ELSE IF isArray(mirror) /\ isArray(obj) THEN generate(mirror, obj, <<>>)
  ELSE IF ~StrictEq(mirror, obj)
       THEN <<Operation("replace", <<>>, deepClone(obj))>>
  ELSE <<>>

\* arr.splice(i, 0, value) and arr.splice(i, 1)
SpliceIn(arr, i, value) ==
  List(SubSeq(arr.v, 1, i) \o <<value>> \o SubSeq(arr.v, i + 1, Length(arr)))
SpliceOut(arr, i) ==
  List(SubSeq(arr.v, 1, i) \o SubSeq(arr.v, i + 2, Length(arr)))

\* applyOperation with validation, below the member _: obj is the value the
\* walk along the path has reached.  A path that leaves the document throws
\* a JsonPatchError.
RECURSIVE applyAt(_, _, _)
applyAt(obj, path, operation) ==
  IF ~isArray(obj) THEN Err("JsonPatchError")
  ELSE IF Len(path) > 1
       THEN (IF Head(path) >= Length(obj) THEN Err("JsonPatchError")
             ELSE LET r == applyAt(Idx(obj, Head(path)), Tail(path), operation)
                  IN  IF IsErr(r) THEN r ELSE Splice(obj, Head(path), r))
  ELSE IF operation.op = "add"
       THEN (IF Head(path) > Length(obj) THEN Err("JsonPatchError")
             ELSE SpliceIn(obj, Head(path), operation.value))
  ELSE IF Head(path) >= Length(obj) THEN Err("JsonPatchError")
  ELSE IF operation.op = "remove" THEN SpliceOut(obj, Head(path))
  ELSE Splice(obj, Head(path), operation.value)

\* applyOperation on the document {_: document}; an operation on the member
\* _ itself needs the member to be there
applyOperation(document, operation) ==
  IF Len(operation.path) > 0 THEN applyAt(document, operation.path, operation)
  ELSE IF document = Undefined THEN Err("JsonPatchError")
  ELSE IF operation.op = "remove" THEN Undefined
  ELSE operation.value

RECURSIVE applyOperations(_, _)
applyOperations(document, patch) ==
  IF Len(patch) = 0 THEN document
  ELSE LET r == applyOperation(document, Head(patch))
       IN  IF IsErr(r) THEN r ELSE applyOperations(r, Tail(patch))

\* applyPatch({_: document}, patch, true, false).newDocument._ : the
\* document is cloned first (a member that is undefined is dropped)
applyPatch(document, patch) ==
  applyOperations(IF document = Undefined THEN Undefined ELSE jsonClone(document),
                  patch)

-----------------------------------------------------------------------------
(* prettyPrint: the text shown for a term, kept as the term the text        *)
(* determines: 'x for (quote x ...), '() for (quote), 0 for -0.  Reading an *)
(* element of null or undefined throws.                                      *)

RECURSIVE buildDoc(_)
buildDoc(data) ==
  IF IsNullish(data) THEN Err("NativeTypeError")
  ELSE IF TypeOf(data) = "string" THEN data
  ELSE IF TypeOf(data) = "number"
       THEN (IF data.v = NegZero THEN NumVal(PosZero) ELSE data)
  ELSE IF Idx(data, 0) = SYM_QUOTE
       THEN LET inner == buildDoc(Coalesce(Idx(data, 1), List(<<>>)))
            IN  IF IsErr(inner) THEN inner ELSE List(<<SYM_QUOTE, inner>>)
  ELSE LET docs == [i \in 1..Length(data) |-> buildDoc(data.v[i])]
       IN  IF IsErr(FirstErr(docs)) THEN FirstErr(docs) ELSE List(docs)

prettyPrint(data) == buildDoc(data)

Text(doc) == [k |-> "text", v |-> doc]
ErrorText == [k |-> "error", v |-> "error"]

-----------------------------------------------------------------------------
(* The page: showStep, updateButtons, onChange and the click handlers.  A   *)
(* page is the record of the driver's variables; thrown is the kind of the  *)
(* exception that ended the handler, "none" if it returned.                  *)

\* Infinity, as showStep(Infinity) receives it
Infinity == PosInf

updateButtons(page) ==
  LET hasNext == IF truthy(page.state) THEN canStep(page.state) ELSE FALSE
  IN  [page EXCEPT !.buttons =
         [first |-> page.steppingToEnd \/ page.currentStep <= 0,
          prev |-> page.steppingToEnd \/ page.currentStep <= 0,
          next |-> page.steppingToEnd \/ ~hasNext,
          last |-> ~page.steppingToEnd /\ ~hasNext]]

\* the tail of showStep: the step field, the output, then updateButtons;
\* prettyPrint throws before the output and the buttons are touched
render(page) ==
  LET text == IF truthy(page.state) THEN prettyPrint(page.state) ELSE nil
  IN  IF IsErr(text)
      THEN [page EXCEPT !.display.stepInput = <<page.currentStep>>,
                        !.thrown = text.v]
      ELSE updateButtons(
             [page EXCEPT !.display = [output |-> Text(text),
                                       stepInput |-> <<page.currentStep>>]])

\* while (backPatches.length && i > index) { i--; state = applyPatch(...) }
RECURSIVE stepBack(_, _, _, _)
stepBack(s, patches, i, index) ==
  IF Len(patches) = 0 \/ ~NumLt(index, IntOf(i))
  THEN [state |-> s, backPatches |-> patches, i |-> i, thrown |-> "none"]
  ELSE Only({ IF IsErr(r)
                THEN [state |-> s, backPatches |-> SubSeq(patches, 1, Len(patches) - 1),
                      i |-> i - 1, thrown |-> r.v]
                ELSE stepBack(r, SubSeq(patches, 1, Len(patches) - 1), i - 1, index) :
              r \in {applyPatch(s, patches[Len(patches)])} })

\* while (i < index && state && canStep(state)) { ... }.  quantum is the
\* number of iterations after which Date.now() - prevYield > 7 holds; arg is
\* the argument of the latest step call; timer is 1 if setTimeout was called
RECURSIVE stepForward(_, _, _, _, _, _, _)

\* the body of the loop once step(s) has returned or thrown next, patch
\* being compare({_: next}, {_: s})
iteration(s, next, patch, patches, i, index, quantum, toEnd) ==
  LET logged == applyPatch(next, patch)
      kept == IF Len(patches) > MaxPatches THEN Tail(patches) ELSE patches
  IN  IF IsErr(next)
      THEN [state |-> s, backPatches |-> patches, i |-> i,
            thrown |-> next.v, timer |-> 0, arg |-> s]
      ELSE IF IsErr(logged)
           THEN [state |-> next, backPatches |-> patches, i |-> i,
                 thrown |-> logged.v, timer |-> 0, arg |-> s]
      ELSE IF index = Infinity /\ quantum <= 1
           THEN [state |-> next, backPatches |-> Append(kept, patch),
                 i |-> i + 1, thrown |-> "none",
                 timer |-> IF toEnd THEN 1 ELSE 0, arg |-> s]
      ELSE stepForward(next, Append(kept, patch), i + 1, index,
                       quantum - 1, toEnd, s)

stepForward(s, patches, i, index, quantum, toEnd, arg) ==
  IF ~(NumLt(IntOf(i), index) /\ truthy(s) /\ canStep(s))
  THEN [state |-> s, backPatches |-> patches, i |-> i, thrown |-> "none",
        timer |-> 0, arg |-> arg]
  ELSE Only({ Only({ iteration(s, next, patch, patches, i, index, quantum, toEnd) :
                     patch \in {IF IsErr(next) THEN <<>> ELSE compare(next, s)} }) :
              next \in {step(s)} })

\* showStep once its first loop has left `back` and its second loop `fwd`
shown(page, back, fwd) ==
  IF back.thrown # "none"
  THEN [page EXCEPT !.state = back.state,
                    !.backPatches = back.backPatches,
                    !.thrown = back.thrown]
  ELSE IF fwd.thrown # "none"
       THEN [page EXCEPT !.state = fwd.state,
                         !.backPatches = fwd.backPatches,
                         !.prevState = fwd.arg,
                         !.thrown = fwd.thrown]
  ELSE render([page EXCEPT
         !.state = fwd.state,
         !.backPatches = fwd.backPatches,
         !.prevState = fwd.arg,
         !.timers = @ + fwd.timer,
         !.steppingToEnd =
            IF @ /\ truthy(fwd.state) /\ ~canStep(fwd.state)
            THEN FALSE ELSE @,
         !.currentStep = fwd.i])

showStep(page, index, quantum) ==
  IF index = PosZero
  THEN render([page EXCEPT !.currentStep = 0,
                           !.state = page.initialState,
                           !.backPatches = <<>>])
  ELSE Only({ Only({ shown(page, back, fwd) :
                     fwd \in {IF back.thrown # "none" THEN back
                              ELSE stepForward(back.state, back.backPatches, back.i,
                                               index, quantum, page.steppingToEnd,
                                               page.prevState)} }) :
              back \in {stepBack(page.state, page.backPatches,
                                 page.currentStep, index)} })

\* the text of the input field: a program, nothing, or text parse rejects
Empty == [k |-> "empty", v |-> "empty"]
Unparsable == [k |-> "unparsable", v |-> "unparsable"]

onChange(page, input) ==
  LET cleared == updateButtons(
                   [page EXCEPT !.state = Null,
                                !.backPatches = <<>>,
                                !.currentStep = 0,
                                !.display = [output |-> Placeholder,
                                             stepInput |-> <<>>]])
      parsed == showStep([cleared EXCEPT !.initialState = input,
                                         !.state = input], PosZero, 0)
  IN  IF input = Empty THEN cleared
      ELSE IF input = Unparsable
           THEN [cleared EXCEPT !.display.output = ErrorText]
      ELSE IF parsed.thrown # "none"
           THEN [parsed EXCEPT !.display.output = ErrorText, !.thrown = "none"]
      ELSE updateButtons(parsed)

\* the programs typed into the input field
DriverPrograms ==
  { Num(1),
    sym("x"),
    App3(sym("add"), App3(sym("add"), Num(0), Num(1)), Num(1)),
    App3(sym("add"), Num(0), Num(0)),
    App2(sym("car"), App3(sym("add"), Num(0), Num(1))),
    App3(sym("add"), App3(sym("div"), Num(1), Num(0)),
                     App3(sym("add"), Num(0), Num(1))),
    List(<<SYM_IF, App2(sym("not"), nil)>>),
    App2(selfApply, selfApply) }

thePage ==
  [initialState |-> initialState, state |-> state, prevState |-> prevState,
   currentStep |-> currentStep, backPatches |-> backPatches,
   steppingToEnd |-> steppingToEnd, timers |-> timers, buttons |-> buttons,
   display |-> display, thrown |-> "none"]

\* the variables after a handler that left the page as `page`
Becomes(page) ==
  /\ initialState' = page.initialState
  /\ state' = page.state
  /\ prevState' = page.prevState
  /\ currentStep' = page.currentStep
  /\ backPatches' = page.backPatches
  /\ steppingToEnd' = page.steppingToEnd
  /\ timers' = page.timers
  /\ buttons' = page.buttons
  /\ display' = page.display
  /\ outcome' = IF page.thrown = "none" THEN "returned" ELSE page.thrown

\* the page once the script has run: onChange() on an empty input field
DriverInit ==
  /\ initialState = Null
  /\ state = Null
  /\ prevState = Null
  /\ outcome = "none"
  /\ currentStep = 0
  /\ driverIdle

\* the input event of the input field, and the change event of the menu
InputChanges ==
  \E input \in DriverPrograms \cup {Empty, Unparsable} :
    \E page \in {onChange(thePage, input)} : Becomes(page)

ClickFirst ==
  /\ ~buttons.first
  /\ \E page \in {showStep(thePage, PosZero, 0)} : Becomes(page)

ClickPrev ==
  /\ ~buttons.prev
  /\ \E page \in {showStep(thePage, IntOf(currentStep - 1), 0)} : Becomes(page)

ClickNext ==
  /\ ~buttons.next
  /\ currentStep < MaxDriverSteps
  /\ \E page \in {showStep(thePage, IntOf(currentStep + 1), 0)} : Becomes(page)

\* if (steppingToEnd) { steppingToEnd = false } else { steppingToEnd = true;
\* showStep(Infinity) }
ClickLast ==
  /\ ~buttons.last
  /\ IF steppingToEnd
     THEN Becomes([thePage EXCEPT !.steppingToEnd = FALSE])
     ELSE /\ timers < MaxTimers
          /\ \E quantum \in 1..MaxQuantum :
               /\ currentStep + quantum <= MaxDriverSteps
               /\ \E page \in {showStep([thePage EXCEPT !.steppingToEnd = TRUE],
                                          Infinity, quantum)} : Becomes(page)

\* the callback of setTimeout(() => showStep(index), 7)
TimerFires ==
  /\ timers > 0
  /\ \E quantum \in 1..MaxQuantum :
       /\ currentStep + quantum <= MaxDriverSteps
       /\ \E page \in {showStep([thePage EXCEPT !.timers = @ - 1],
                                  Infinity, quantum)} : Becomes(page)

DriverNext ==
  \/ InputChanges
  \/ ClickFirst
  \/ ClickPrev
  \/ ClickNext
  \/ ClickLast
  \/ TimerFires

DriverSpec == DriverInit /\ [][DriverNext]_vars

\* The page whose event loop runs every callback that setTimeout(() =>
\* showStep(index), 7) has scheduled; clicks and edits are the user's and
\* need not happen.
DriverFairSpec == DriverSpec /\ WF_vars(TimerFires)

-----------------------------------------------------------------------------
(* Properties *)

\* the sub-term of t at a position; undefined where t has no such position
RECURSIVE At(_, _)
At(t, path) ==
  IF path = <<>> THEN t ELSE At(Idx(t, Head(path)), Tail(path))

\* t with the sub-term at a position of t replaced by x
RECURSIVE Put(_, _, _)
Put(t, path, x) ==
  IF path = <<>> THEN x
  ELSE Splice(t, Head(path), Put(Idx(t, Head(path)), Tail(path), x))

\* a step call has been made; prevState is its argument
Called == outcome # "none"
Returned == outcome = "returned"
ErrorKinds ==
  {"UndefinedSymbol", "InvalidOperator", "InvalidLambdaShape", "TypeError",
   "NativeTypeError"}
isLambdaApplication(t) ==
  isArray(t) /\ isArray(Idx(t, 0)) /\ Idx(Idx(t, 0), 0) = SYM_LAMBDA
\* ((lambda (x) (x x)) (lambda (x) (x x)))
selfApplication == App2(selfApply, selfApply)

\* C1 as stated: a step call on a term that can step throws one of the error
\* kinds or returns a term that is not structurally identical to its argument.
C1_ProgressAsStated ==
  (Called /\ IsData(prevState) /\ canStep(prevState)) =>
     \/ outcome \in ErrorKinds
     \/ Returned /\ state # prevState

\* C1 amended: a step call on a term that can step throws one of the error
\* kinds or returns a value that differs from its argument at most at the
\* position of the contracted redex, and is structurally identical to the
\* argument only if that redex is a lambda application.
C1_Progress ==
  (Called /\ IsData(prevState) /\ canStep(prevState)) =>
     \/ outcome \in ErrorKinds
     \/ /\ Returned
        /\ state = Put(prevState, redexPath(prevState), At(state, redexPath(prevState)))
        /\ \/ state # prevState
           \/ isLambdaApplication(At(prevState, redexPath(prevState)))

\* the self-application term has been stepped and is its own successor
C1_Witness ==
  /\ Returned
  /\ prevState = selfApplication
  /\ canStep(prevState)
  /\ state = prevState

\* C2: a step call on a term that cannot step throws nothing and returns its
\* argument unchanged.
C2_FixedPoint ==
  (Called /\ IsData(prevState) /\ ~canStep(prevState)) =>
     (Returned /\ state = prevState)

\* a cons value with irreducible contents has been stepped twice and is as
\* it was
C2_Witness ==
  /\ Returned
  /\ currentStep >= 2
  /\ Idx(prevState, 0) = SYM_CONS
  /\ Length(prevState) = 3
  /\ ~canStep(prevState)
  /\ state = initialState

\* C3 as stated: a List headed by quote or lambda cannot step, and a step
\* call returns it unchanged.
C3_QuoteLambdaNormalForm ==
  (Called /\ IsData(prevState) /\ isArray(prevState)
          /\ Idx(prevState, 0) \in {SYM_QUOTE, SYM_LAMBDA}) =>
     (~canStep(prevState) /\ Returned /\ state = prevState)

\* C4 as stated: a step call on a List whose head is none of if, and, or
\* (nor quote, lambda, whose Lists are values) and that has an element that
\* can step returns that List with only the lowest such element replaced by
\* its own step, or throws what the step of that element throws.
C4_LeftmostFirst ==
  (/\ Called /\ IsData(prevState) /\ isArray(prevState)
   /\ Idx(prevState, 0) \notin {SYM_IF, SYM_AND, SYM_OR, SYM_QUOTE, SYM_LAMBDA}
   /\ firstReducible(prevState) >= 0) =>
     LET i == firstReducible(prevState)
         r == step(Idx(prevState, i))
     IN  IF IsErr(r) THEN outcome = r.v
         ELSE Returned /\ state = Splice(prevState, i, r)

\* What does hold of the scan: the statement above for every List on which
\* canStep is true.
LeftmostFirstWhereCanStep ==
  (/\ Called /\ IsData(prevState) /\ isArray(prevState)
   /\ canStep(prevState)
   /\ Idx(prevState, 0) \notin {SYM_IF, SYM_AND, SYM_OR}
   /\ firstReducible(prevState) >= 0) =>
     LET i == firstReducible(prevState)
         r == step(Idx(prevState, i))
     IN  IF IsErr(r) THEN outcome = r.v
         ELSE Returned /\ state = Splice(prevState, i, r)

\* (if c A B ...): a List headed by if that has a condition and a then-branch
isIfForm(t) == isArray(t) /\ Idx(t, 0) = SYM_IF /\ Length(t) >= 3
\* (if (quote true) 1 (div 1 0))
ifExample == List(<<SYM_IF, true_, Num(1), App3(sym("div"), Num(1), Num(0))>>)

RECURSIVE Positions(_)
Positions(t) ==
  IF ~isArray(t) THEN {<<>>}
  ELSE {<<>>} \cup UNION {{<<i>> \o q : q \in Positions(Idx(t, i))} :
                            i \in 0..(Length(t) - 1)}

\* the Symbols a lambda-headed List names in its parameter List
boundNames(l) ==
  IF isArray(Idx(l, 1))
  THEN {Idx(l, 1).v[i].v : i \in {j \in 1..Length(Idx(l, 1)) : isSym(Idx(l, 1).v[j])}}
  ELSE {}

\* position p of t holds a free occurrence of the Symbol S: it is not inside
\* a quote-headed List, not in the parameter position of a lambda-headed
\* List, and not in the body of a lambda-headed List that names S
RECURSIVE occursFree(_, _, _)
occursFree(t, p, S) ==
  IF p = <<>> THEN t = sym(S)
  ELSE /\ isArray(t)
       /\ Head(p) < Length(t)
       /\ Idx(t, 0) # SYM_QUOTE
       /\ Idx(t, 0) = SYM_LAMBDA =>
            /\ Head(p) # 1
            /\ ~(Head(p) = 2 /\ S \in boundNames(t))
       /\ occursFree(Idx(t, Head(p)), Tail(p), S)

\* position p of t holds an occurrence of S in the body of a lambda-headed
\* List of t that names S among its parameters
RECURSIVE occursShadowed(_, _, _)
occursShadowed(t, p, S) ==
  /\ p # <<>>
  /\ isArray(t)
  /\ Head(p) < Length(t)
  /\ \/ /\ Idx(t, 0) = SYM_LAMBDA /\ Head(p) = 2 /\ S \in boundNames(t)
        /\ At(t, p) = sym(S)
     \/ occursShadowed(Idx(t, Head(p)), Tail(p), S)

\* position p of t lies after the body of a lambda-headed List of t
RECURSIVE afterLambdaBody(_, _)
afterLambdaBody(t, p) ==
  /\ p # <<>>
  /\ isArray(t)
  /\ \/ Idx(t, 0) = SYM_LAMBDA /\ Head(p) >= 3
     \/ afterLambdaBody(Idx(t, Head(p)), Tail(p))

\* the latest call was the application of a well-shaped lambda List to
\* operands that cannot step
betaStep ==
  /\ Called /\ IsData(prevState)
  /\ isLambdaApplication(prevState)
  /\ firstReducible(prevState) = -1
  /\ Length(Idx(prevState, 0)) = 3
  /\ isArray(Idx(Idx(prevState, 0), 1))
  /\ \A i \in 1..Length(Idx(Idx(prevState, 0), 1)) : isSym(Idx(Idx(prevState, 0), 1).v[i])
lambdaParams == Idx(Idx(prevState, 0), 1)
lambdaBody == Idx(Idx(prevState, 0), 2)
\* the i-th operand of the application (i counted from 1), nil if absent
operand(i) == Coalesce(Idx(prevState, i), nil)
\* each parameter name with the operand at the last place it is named
lastBinding ==
  [S \in boundNames(Idx(prevState, 0)) |->
     operand(CHOOSE i \in 1..Length(lambdaParams) :
               /\ lambdaParams.v[i].v = S
               /\ \A j \in 1..Length(lambdaParams) : lambdaParams.v[j].v = S => j <= i)]

\* C6 as stated: when the application returns, every free occurrence of the
\* i-th parameter in the body holds the i-th operand in the result, for
\* every i.
C6_LambdaApplicationAsStated ==
  (betaStep /\ Returned) =>
    \A i \in 1..Length(lambdaParams) : \A p \in Positions(lambdaBody) :
      occursFree(lambdaBody, p, lambdaParams.v[i].v) => At(state, p) = operand(i)

\* C6 amended: the application returns the body instantiated with each
\* parameter name bound to the operand at the last place the name occurs in
\* the parameter List (nil if there is no such operand; operands after the
\* last parameter are not used), or throws when the instantiation throws.
\* Every free occurrence of a parameter that does not lie after the body of a
\* nested lambda List holds that operand, and ((lambda (x) x) n) returns n.
C6_LambdaApplication ==
  betaStep =>
    /\ IF IsErr(rewrite(lambdaBody, lastBinding))
       THEN outcome = rewrite(lambdaBody, lastBinding).v
       ELSE Returned /\ state = rewrite(lambdaBody, lastBinding)
    /\ Returned =>
         \A S \in DOMAIN lastBinding : \A p \in Positions(lambdaBody) :
           (occursFree(lambdaBody, p, S) /\ ~afterLambdaBody(lambdaBody, p))
              => At(state, p) = lastBinding[S]
    /\ \A n \in Nums :
         prevState = App2(Lambda(<<sym("x")>>, sym("x")), n) => Returned /\ state = n

\* (lambda (x y) (add x y)) was applied to a single operand: x took the
\* operand and y, which has none, took nil
C6_Witness ==
  /\ betaStep /\ Returned
  /\ lambdaParams = List(<<sym("x"), sym("y")>>)
  /\ lambdaBody = App3(sym("add"), sym("x"), sym("y"))
  /\ Length(prevState) = 2
  /\ state = App3(sym("add"), Idx(prevState, 1), nil)

\* C7 as stated: in the instantiation of a lambda body, an occurrence of a
\* bound name S in the body of a nested lambda List that names S is left as
\* it is, and every free occurrence of S is replaced by what S is bound to.
C7_ShadowingAsStated ==
  (betaStep /\ Returned) =>
    \A S \in DOMAIN lastBinding : \A p \in Positions(lambdaBody) :
      /\ occursShadowed(lambdaBody, p, S) => At(state, p) = sym(S)
      /\ occursFree(lambdaBody, p, S) => At(state, p) = lastBinding[S]

\* C7 amended: as above, but a nested lambda List is rebuilt from its
\* parameter position and its body alone: a free occurrence of S is replaced
\* unless it lies after the body of a nested lambda List, and what lies
\* after such a body is absent from the result.
C7_Shadowing ==
  (betaStep /\ Returned) =>
    \A S \in DOMAIN lastBinding : \A p \in Positions(lambdaBody) :
      /\ occursShadowed(lambdaBody, p, S) => At(state, p) = sym(S)
      /\ occursFree(lambdaBody, p, S) =>
           At(state, p) = IF afterLambdaBody(lambdaBody, p) THEN Undefined
                          ELSE lastBinding[S]

\* (lambda (x) (cons (lambda (x) x) x)) was applied to a Number: the x of the
\* nested lambda is kept, the x after the nested lambda holds the Number
C7_Witness ==
  /\ betaStep /\ Returned
  /\ lambdaParams = List(<<sym("x")>>)
  /\ lambdaBody = App3(SYM_CONS, Lambda(<<sym("x")>>, sym("x")), sym("x"))
  /\ Idx(prevState, 1) \in Nums
  /\ state = App3(SYM_CONS, Lambda(<<sym("x")>>, sym("x")), Idx(prevState, 1))

\* (or a b ...) or (and a b ...): a List headed by or/and with both operands
isOrForm(t) == isArray(t) /\ Idx(t, 0) = SYM_OR /\ Length(t) >= 3
isAndForm(t) == isArray(t) /\ Idx(t, 0) = SYM_AND /\ Length(t) >= 3

tableCanStep(t) ==
  IF Idx(t, 0) = SYM_CONS /\ Length(t) = 3
  THEN canStep(Idx(t, 1)) \/ canStep(Idx(t, 2))
  ELSE ~(\/ isNil(t)
         \/ Idx(t, 0) = SYM_QUOTE /\ isSym(Idx(t, 1))
         \/ Idx(t, 0) = SYM_LAMBDA)

\* C9 as stated: canStep of a List is what the rule table says, for
\* cons-headed Lists of every length.
C9_CanStepLists ==
  (Called /\ IsData(prevState) /\ isArray(prevState)) =>
    canStep(prevState) = tableCanStep(prevState)

\* the position of the leftmost reducible sub-term of a List that the rule
\* table calls reducible: where the scan of its elements ends
tableRedexPath(t) ==
  IF canStep(t) \/ ~tableCanStep(t) \/ firstReducible(t) < 0 THEN redexPath(t)
  ELSE <<firstReducible(t)>> \o redexPath(Idx(t, firstReducible(t)))

\* C10 as stated: canStep of a Symbol is true exactly when the Symbol is no
\* builtin name; a step call on such a Symbol, or on a List whose leftmost
\* reducible sub-term is a Symbol, throws "is not defined"; a step call on a
\* builtin name returns it unchanged.
C10_SymbolsAsStated ==
  (Called /\ IsData(prevState)) =>
    /\ isSym(prevState) =>
         /\ canStep(prevState) = (prevState.v \notin builtinNames)
         /\ IF prevState.v \in builtinNames
            THEN Returned /\ state = prevState
            ELSE outcome = "UndefinedSymbol"
    /\ (isArray(prevState) /\ isSym(At(prevState, tableRedexPath(prevState)))) =>
         outcome = "UndefinedSymbol"

\* What does hold of Symbols: the statement above for every List on which
\* canStep is true, with the sub-term the call acts on for the leftmost
\* reducible one; a call that throws leaves the program as it was.
SymbolsWhereCanStep ==
  (Called /\ IsData(prevState)) =>
    /\ isSym(prevState) =>
         /\ canStep(prevState) = (prevState.v \notin builtinNames)
         /\ IF prevState.v \in builtinNames
            THEN Returned /\ state = prevState
            ELSE outcome = "UndefinedSymbol" /\ state = prevState
    /\ (isArray(prevState) /\ canStep(prevState)
          /\ isSym(At(prevState, redexPath(prevState)))) =>
         outcome = "UndefinedSymbol" /\ state = prevState

\* a List was stepped once; in the next call the scan reached a Symbol that
\* is no builtin, below the root, and the call threw "is not defined"
SymbolsWhereCanStepWitness ==
  /\ outcome = "UndefinedSymbol"
  /\ currentStep >= 1
  /\ isArray(prevState)
  /\ Len(redexPath(prevState)) >= 1
  /\ isSym(At(prevState, redexPath(prevState)))
  /\ At(prevState, redexPath(prevState)).v \notin builtinNames

\* every element of the List t is a value: none can step
allIrreducible(t) == \A i \in 0..(Length(t) - 1) : ~canStep(Idx(t, i))
isBuiltinName(x) == isSym(x) /\ x.v \in builtinNames
isLambdaList(x) == isArray(x) /\ Idx(x, 0) = SYM_LAMBDA

\* C11: a step call on a List whose elements all cannot step and whose
\* element 0 is neither a lambda-headed List nor a builtin name (or is
\* missing) throws "expected symbol"; it returns nothing and the program
\* stays as it was.
C11_InvalidOperator ==
  (/\ Called /\ IsData(prevState) /\ isArray(prevState)
   /\ allIrreducible(prevState)
   /\ ~isLambdaList(Idx(prevState, 0))
   /\ ~isBuiltinName(Idx(prevState, 0))) =>
     outcome = "InvalidOperator" /\ state = prevState

\* a cons value stood as the operator of an application with an operand
C11_Witness ==
  /\ outcome = "InvalidOperator"
  /\ Length(prevState) >= 2
  /\ Length(Idx(prevState, 0)) = 3
  /\ Idx(Idx(prevState, 0), 0) = SYM_CONS
  /\ allIrreducible(prevState)

\* the parameter position of the lambda List fn holds a List of Symbols only
hasSymbolParams(fn) ==
  /\ isArray(Idx(fn, 1))
  /\ \A i \in 1..Length(Idx(fn, 1)) : isSym(Idx(fn, 1).v[i])

\* C12: a step call on a List whose elements all cannot step and whose
\* operator is a lambda-headed List with a parameter position that is not a
\* List of Symbols, or without a body, throws "is not a valid lambda"; it
\* returns nothing and the program stays as it was.
C12_InvalidLambdaShape ==
  (/\ Called /\ IsData(prevState) /\ isArray(prevState)
   /\ allIrreducible(prevState)
   /\ isLambdaList(Idx(prevState, 0))
   /\ ~hasSymbolParams(Idx(prevState, 0)) \/ Length(Idx(prevState, 0)) < 3) =>
     outcome = "InvalidLambdaShape" /\ state = prevState

\* a lambda List with a parameter List and no body was applied to an operand
C12_Witness ==
  /\ outcome = "InvalidLambdaShape"
  /\ Length(prevState) >= 2
  /\ isLambdaList(Idx(prevState, 0))
  /\ hasSymbolParams(Idx(prevState, 0))
  /\ Length(Idx(prevState, 0)) = 2

\* the builtins that assert two Numbers, and the one that asserts one
binaryNumeric ==
  {"add", "sub", "mul", "div", "rem", "pow", "band", "bor", "bxor",
   "shl", "shr", "shru", "lt", "lte", "gt", "gte"}
unaryNumeric == {"bnot"}
notNumber(x) == x.k # "num"
\* the latest call applied the builtin named by a name of names to operands
\* that cannot step
builtinCall(names) ==
  /\ Called /\ IsData(prevState) /\ isArray(prevState)
  /\ allIrreducible(prevState)
  /\ isSym(Idx(prevState, 0))
  /\ Idx(prevState, 0).v \in names

\* C13: a numeric or ordering builtin applied to operands that cannot step,
\* of which a required one is absent or no Number, throws a TypeError, as do
\* car and cdr applied to anything but a cons-headed List of 3 elements; the
\* call returns nothing and the program stays as it was.  The TypeError is
\* "expected number" or "expected cons pair", or, for an absent Number, the
\* one raised while the message is built.
C13_BuiltinTypeError ==
  /\ (builtinCall(binaryNumeric \cup unaryNumeric)
        /\ \/ notNumber(Idx(prevState, 1))
           \/ Idx(prevState, 0).v \in binaryNumeric /\ notNumber(Idx(prevState, 2))) =>
       LET bad == IF notNumber(Idx(prevState, 1)) THEN Idx(prevState, 1)
                  ELSE Idx(prevState, 2)
       IN  /\ outcome = IF bad = Undefined THEN "NativeTypeError" ELSE "TypeError"
           /\ state = prevState
  /\ (builtinCall({"car", "cdr"})
        /\ ~(/\ isArray(Idx(prevState, 1))
             /\ Length(Idx(prevState, 1)) = 3
             /\ Idx(Idx(prevState, 1), 0) = SYM_CONS)) =>
       outcome = "TypeError" /\ state = prevState

\* (car n) was stepped for a Number n and threw "expected cons pair"
C13_Witness ==
  /\ outcome = "TypeError"
  /\ prevState \in {List(<<sym("car"), n>>) : n \in Nums}

\* l and r are the same kind of term with identical structure: Numbers of
\* the same value, the same Symbol or Text, or Lists of the same length
\* whose elements are pairwise so
RECURSIVE sameStructure(_, _)
sameStructure(l, r) ==
  /\ l.k = r.k
  /\ CASE l.k = "num" -> l.v = r.v \/ NumEq(l.v, r.v)
       [] l.k = "list" -> /\ Length(l) = Length(r)
                          /\ \A i \in 1..Length(l) : sameStructure(l.v[i], r.v[i])
       [] OTHER -> l = r

\* the latest call applied eql or neq to two operands that cannot step
eqlCall == builtinCall({"eql", "neq"}) /\ Length(prevState) = 3

\* C14 as stated: eql of two operands that cannot step returns (quote true)
\* exactly when they have identical structure and nil otherwise, neq returns
\* the opposite, and eql of (l, r) is eql of (r, l).
C14_DeepEquality ==
  eqlCall =>
    LET l == Idx(prevState, 1)
        r == Idx(prevState, 2)
        same == IF sameStructure(l, r) THEN true_ ELSE nil
        differ == IF sameStructure(l, r) THEN nil ELSE true_
    IN  /\ Returned
        /\ state = IF Idx(prevState, 0) = sym("eql") THEN same ELSE differ
        /\ state = step(List(<<Idx(prevState, 0), r, l>>))

\* the five kinds typeof is to name
typeofKinds == {"nil", "symbol", "list", "number", "string"}
\* the kind of a term: nil, a Symbol datum, another List, a Number, a Text
kindOf(v) ==
  IF isNil(v) THEN "nil"
  ELSE IF isSym(v) \/ (isArray(v) /\ Idx(v, 0) = SYM_QUOTE /\ isSym(Idx(v, 1)))
       THEN "symbol"
  ELSE IF isArray(v) THEN "list"
  ELSE IF v.k = "num" THEN "number"
  ELSE "string"

\* C15 as stated: typeof applied to operands that cannot step returns
\* (quote K) for one of the five kinds K, the kind of its first operand,
\* and string for a Text only.
C15_Typeof ==
  builtinCall({"typeof"}) =>
    /\ Returned
    /\ state \in {Quoted(sym(K)) : K \in typeofKinds}
    /\ Length(prevState) >= 2 => state = Quoted(sym(kindOf(Idx(prevState, 1))))

\* a List of length 2 whose head is quote and whose second element is the
\* empty List
isNilOfLength2(t) ==
  /\ isArray(t)
  /\ Length(t) = 2
  /\ Idx(t, 0) = SYM_QUOTE
  /\ Idx(t, 1) = List(<<>>)

\* C16 as stated: isNil is true of the Lists (quote ()) of length 2 and of
\* nothing else, for every sub-term of the program, and not tells nil from
\* every other operand by it.
C16_IsNil ==
  (Called /\ IsData(prevState)) =>
    /\ \A p \in Positions(prevState) :
         isNil(At(prevState, p)) = isNilOfLength2(At(prevState, p))
    /\ (builtinCall({"not"}) /\ Length(prevState) = 2) =>
         /\ Returned
         /\ state = IF isNilOfLength2(Idx(prevState, 1)) THEN true_ ELSE nil

-----------------------------------------------------------------------------
\* C17: on the 'infinite recursion' example every call of step returns, and
\* the term it returns can step again: after any number of steps the run is
\* neither at a normal form nor stopped by an error.
C17_NonTermination ==
  initialState = infiniteRecursion =>
    /\ IsData(state)
    /\ canStep(state)
    /\ ~IsErr(step(state))
    /\ outcome \in {"none", "returned"}

\* the run on the example has made every step the bound allows
C17_Witness ==
  /\ initialState = infiniteRecursion
  /\ currentStep = MaxRunSteps
  /\ outcome = "returned"
  /\ canStep(state)

-----------------------------------------------------------------------------
(* The page *)

\* step applied n times to term, an exception ending the run
RECURSIVE stepTimes(_, _)
stepTimes(term, n) ==
  IF n = 0 \/ IsErr(term) THEN term
  ELSE CHOOSE out \in {stepTimes(next, n - 1) : next \in {step(term)}} : TRUE

\* the latest handler was ended by an exception of step; prevState is the
\* argument of the call that threw
stepFailed ==
  /\ outcome \in ErrorKinds
  /\ IsErr(step(prevState))
  /\ step(prevState).v = outcome

\* the output shows state and the step field shows currentStep
showsState ==
  /\ display.output = Text(prettyPrint(state))
  /\ display.stepInput = <<currentStep>>

\* C18 as stated: when a step call fails during showStep, the page is left
\* showing the last term computed, and state, currentStep and backPatches
\* describe that term: state is initialState after currentStep steps, and
\* backPatches holds no more than currentStep patches.
C18_FailureHandling ==
  stepFailed =>
    /\ showsState
    /\ state = stepTimes(initialState, currentStep)
    /\ Len(backPatches) <= currentStep

\* C19 as stated: for every step prevState -> state that showStep takes
\* forwards, the patch it records, compare(state, prevState), applied to
\* state gives prevState back.
C19_BackPatchRoundTrip ==
  (Called /\ ~IsNullish(prevState) /\ ~IsErr(step(prevState))) =>
    \A next \in {step(prevState)} :
      applyPatch(next, compare(next, prevState)) = prevState

\* C20 as stated: whenever a handler has returned and state is not null,
\* state is initialState after currentStep steps, and backPatches holds no
\* more than currentStep patches.
C20_HistoryInvariant ==
  (Returned /\ ~IsNullish(initialState) /\ ~IsNullish(state)) =>
    /\ state = stepTimes(initialState, currentStep)
    /\ Len(backPatches) <= currentStep

\* C21 as stated: a step call on a well-formed term that returns, returns a
\* well-formed term: a Number, a Symbol, a Text or a List of well-formed
\* terms, never an absent element.
C21_WellFormedResults ==
  (Called /\ IsData(prevState) /\ Returned) => IsData(state)

\* the last button has stopped a run and no handler has drawn the buttons
\* since: the stop branch leaves them as the run drew them (first, prev and
\* next disabled, last enabled), which updateButtons never draws while
\* steppingToEnd is false
stopped == ~steppingToEnd /\ buttons.next /\ ~buttons.last

\* a callback of setTimeout runs: the only step that takes a timer away
timerRuns == timers' = timers - 1

\* C22 as stated: after the stop click no step is applied to state and
\* currentStep does not change until a button is clicked, so a continuation
\* that was scheduled before the stop changes neither; and there is never
\* more than one pending continuation.
C22_Cancellation ==
  /\ [](timers <= 1)
  /\ [][(stopped /\ timerRuns) => UNCHANGED <<state, currentStep>>]_vars

\* the stepper as onChange leaves it on a program
isReset == state = initialState /\ currentStep = 0 /\ backPatches = <<>>

\* the input was edited while a run to the end had a continuation pending,
\* and no button has been clicked since: first and prev are disabled during
\* a run, so nothing else takes a run back to step 0
editedDuringRun == steppingToEnd /\ timers > 0 /\ ~IsNullish(state) /\ isReset

\* C23 as stated: after an edit that parses, the stepper stays reset until a
\* button is clicked, also when the edit came during a run to the end, so a
\* pending continuation leaves it reset; and while there is no program
\* (the input is empty or does not parse, state is null) the output shows
\* the placeholder, the error or '(), never a program.
C23_EditResets ==
  /\ [][(editedDuringRun /\ timerRuns) => isReset']_vars
  /\ [](state = Null => display.output \in {Placeholder, ErrorText, Text(nil)})

\* no further step is possible: the loop of showStep does not enter on the
\* state, or the step call on it fails
stepsNoMore == ~IsNullish(state) /\ (~truthy(state) \/ ~canStep(state) \/ IsErr(step(state)))
runIsOver == steppingToEnd /\ stepsNoMore
backToStepping ==
  /\ ~steppingToEnd
  /\ buttons.first = (currentStep <= 0)
  /\ buttons.prev = (currentStep <= 0)
  /\ buttons.next = ~(truthy(state) /\ canStep(state))

\* C24 as stated: with the timer continuations firing fairly, a run to the
\* end whose term can step no further (canStep is false, or the step call
\* fails) eventually leaves its mode: steppingToEnd is false and first, prev
\* and next are enabled according to currentStep and canStep(state); and
\* steppingToEnd does not stay true forever once stepping has stopped.
C24_RunToEndFinishes ==
  /\ runIsOver ~> backToStepping
  /\ []<>~runIsOver

=============================================================================
